---- MODULE Spec2Model ----
(***************************************************************************)
(* Model of the Pocket Option trading bot: the stake sizer                 *)
(* (PocketOptionBot.calculate_martingale_amount), the session loop         *)
(* (PocketOptionBot.run_trading_session with place_trade and               *)
(* check_trade_result) and the strategies (TrendFollowingStrategy.analyze, *)
(* RSIStrategy.analyze).                                                   *)
(*                                                                         *)
(* Units.  Money is counted in cents (trade_amount 1 is 100) and the       *)
(* martingale coefficient in tenths (2.1 is 21), so that a product         *)
(* amount * coefficient is a whole number of tenths of a cent.  Close      *)
(* prices are whole ticks: sums of small integers and their quotients are  *)
(* exact in floating point, so comparing two means is comparing two        *)
(* fractions.                                                              *)
(***************************************************************************)
EXTENDS Integers, Sequences, FiniteSets, TLC

\* ---------------------------------------------------------------- bounds
MaxTrades == 5      \* trades ever recorded in trade_history
MaxBars == 4        \* length of a series handed to analyze on its own
MaxClose == 3       \* close prices 0..MaxClose
MaxPeriod == 3      \* short_period, long_period in 1..MaxPeriod
MaxCalls == 2       \* calls of analyze on one frame

\* ------------------------------------------------------ program constants
NumCandles == 20            \* get_market_data(num_candles=20)
DefaultShortPeriod == 5     \* parameters.get("short_period", 5)
DefaultLongPeriod == 10     \* parameters.get("long_period", 10)
DefaultRsiPeriod == 14      \* parameters.get("rsi_period", 14)
DefaultOverbought == 70     \* parameters.get("rsi_overbought", 70)
DefaultOversold == 30       \* parameters.get("rsi_oversold", 30)
DefaultTradeAmount == 100   \* "trade_amount": 1, in cents
DefaultCoefficient == 21    \* "martingale_coefficient": 2.1, in tenths
DefaultMaxLevel == 5        \* "max_martingale_level": 5
DefaultMaxDailyLoss == 2000 \* "max_daily_loss": 20, in cents
DefaultMaxDailyTrades == 20 \* "max_daily_trades": 20

VARIABLES
    \* the dictionary handed to PocketOptionBot(config), kept as self.config,
    \* and the exception its constructor raised
    config, error,
    \* PocketOptionBot attributes
    trade_amount, martingale_enabled, martingale_coefficient,
    martingale_stack, max_martingale_level, max_daily_loss, max_daily_trades,
    strategy_type, short_period, long_period,
    rsi_period, overbought, oversold,
    trade_history, daily_loss, daily_trades,
    \* run_trading_session: position and loop locals
    pc, direction, amount, raised,
    \* a strategy called on its own: the caller's frame and the result
    data, signal, called

vars == <<config, error, trade_amount, martingale_enabled, martingale_coefficient,
          martingale_stack, max_martingale_level, max_daily_loss,
          max_daily_trades, strategy_type, short_period, long_period,
          rsi_period, overbought, oversold,
          trade_history, daily_loss, daily_trades, pc, direction, amount,
          raised, data, signal, called>>

botConfig == <<config, error, trade_amount, martingale_enabled, martingale_coefficient,
               max_martingale_level, max_daily_loss, max_daily_trades,
               strategy_type, short_period, long_period, rsi_period,
               overbought, oversold>>

standalone == <<data, signal, called>>

Min(a, b) == IF a <= b THEN a ELSE b

\* ------------------------------------------------------------ Python lists
\* list[i] with Python's indexing: 0-based, negative counts from the end,
\* IndexError outside -len..len-1.
InRange(list, i) == -Len(list) <= i /\ i < Len(list)

PyIndex(list, i) == IF i >= 0 THEN list[i + 1] ELSE list[Len(list) + i + 1]

\* ------------------------------------------------------------ the ladder
\* Mutant of Round2: the product cut to the cent instead of rounded.
Round2_Truncate(p) == {p \div 10}

\* round(x, 2) of a product given in tenths of a cent.  Off a tie the
\* nearest cent; on a tie (.5) the float product lies just above or just
\* below the tie, whichever its binary representation gives: either cent.
Round2(p) ==
    LET q == p \div 10
        r == p % 10
    IN  IF r < 5 THEN {q} ELSE IF r > 5 THEN {q + 1} ELSE {q, q + 1}

\* lines 308-311: the stack grown by "for i in range(1, max_level)".
RECURSIVE BuildStack(_, _, _)
BuildStack(stack, coefficient, max_level) ==
    IF Len(stack) >= max_level
    THEN {stack}
    ELSE UNION { BuildStack(Append(stack, a), coefficient, max_level) :
                   a \in Round2(stack[Len(stack)] * coefficient) }

\* lines 306-311: the stack after the lazy initialisation.
InitStack ==
    IF martingale_stack = <<>>
    THEN BuildStack(<<trade_amount>>, martingale_coefficient,
                    max_martingale_level)
    ELSE {martingale_stack}

\* Mutant: a win is treated like a loss, the stake is not reset.
StackAmount_NoReset(s, last_result) ==
    LET current_level == trade_history[Len(trade_history)].martingale_level
        next_level == Min(current_level + 1, max_martingale_level - 1)
    IN  [raised |-> FALSE, amount |-> PyIndex(s, next_level), stack |-> s]

\* Mutant: the level of the last trade is used as it is, not advanced.
StackAmount_SameLevel(s, last_result) ==
    IF last_result = "win"
    THEN [raised |-> FALSE, amount |-> s[1], stack |-> s]
    ELSE LET current_level ==
                 trade_history[Len(trade_history)].martingale_level
             next_level == Min(current_level, max_martingale_level - 1)
         IN  [raised |-> FALSE, amount |-> PyIndex(s, next_level),
              stack |-> s]

\* Mutant: the next level is not capped at max_martingale_level - 1.
StackAmount_NoCap(s, last_result) ==
    IF last_result = "win"
    THEN [raised |-> FALSE, amount |-> s[1], stack |-> s]
    ELSE LET current_level ==
                 trade_history[Len(trade_history)].martingale_level
             next_level == current_level + 1
         IN  IF InRange(s, next_level)
             THEN [raised |-> FALSE, amount |-> PyIndex(s, next_level),
                   stack |-> s]
             ELSE [raised |-> TRUE, amount |-> 0, stack |-> s]

\* lines 313-320 on the stack s: the amount returned, or the IndexError of
\* trade_history[-1] or martingale_stack[next_level].
StackAmount(s, last_result) ==
    IF last_result = "win"
    THEN [raised |-> FALSE, amount |-> s[1], stack |-> s]
    ELSE IF trade_history = <<>>
    THEN [raised |-> TRUE, amount |-> 0, stack |-> s]
    ELSE LET current_level ==
                 trade_history[Len(trade_history)].martingale_level
             next_level ==
                 Min(current_level + 1, max_martingale_level - 1)
         IN  IF InRange(s, next_level)
             THEN [raised |-> FALSE, amount |-> PyIndex(s, next_level),
                   stack |-> s]
             ELSE [raised |-> TRUE, amount |-> 0, stack |-> s]

\* calculate_martingale_amount(last_result): the possible outcomes, each the
\* amount returned (or the exception) and the stack left behind.
calculate_martingale_amount(last_result) ==
    IF ~martingale_enabled
    THEN {[raised |-> FALSE, amount |-> trade_amount,
           stack |-> martingale_stack]}
    ELSE { StackAmount(s, last_result) : s \in InitStack }

\* Mutant: the ladder is used whether or not the martingale is enabled.
NextAmount_IgnoresFlag ==
    IF trade_history # <<>>
    THEN { StackAmount(s, trade_history[Len(trade_history)].status) :
             s \in InitStack }
    ELSE {[raised |-> FALSE, amount |-> trade_amount,
           stack |-> martingale_stack]}

\* lines 383-388: the amount of the next trade.
NextAmount ==
    IF trade_history # <<>> /\ martingale_enabled
    THEN calculate_martingale_amount(
             trade_history[Len(trade_history)].status)
    ELSE {[raised |-> FALSE, amount |-> trade_amount,
           stack |-> martingale_stack]}

\* ------------------------------------------------------------ strategies
NaN == [nan |-> TRUE, sum |-> 0, window |-> 0]

RECURSIVE SumRange(_, _, _)
SumRange(close, from, to) ==
    IF from > to THEN 0 ELSE close[from] + SumRange(close, from + 1, to)

\* Series.rolling(window=w).mean(): one value per row, NaN until w rows are
\* in the window, then the mean of the w most recent closes, kept as the
\* fraction sum/window.
Rolling(close, w) ==
    [i \in 1..Len(close) |->
        IF i < w THEN NaN
        ELSE [nan |-> FALSE, sum |-> SumRange(close, i - w + 1, i),
              window |-> w]]

\* Mutant: a tie counts as greater.
MeanGreaterOrEqual(a, b) == a.sum * b.window >= b.sum * a.window

\* Mutant: the comparison reversed.
MeanLess(a, b) == a.sum * b.window < b.sum * a.window

\* a > b for two means that are not NaN.
MeanGreater(a, b) == a.sum * b.window > b.sum * a.window

\* TrendFollowingStrategy.analyze(data): the signal returned and the frame
\* as the call leaves it.
TrendFollowingAnalyze(frame) ==
    IF Len(frame.close) < long_period
    THEN [signal |-> "none", frame |-> frame]
    ELSE LET sma_short == Rolling(frame.close, short_period)
             sma_long == Rolling(frame.close, long_period)
             after == [frame EXCEPT
                         !.columns = @ \cup {"sma_short", "sma_long"}]
             last == Len(frame.close)
         IN  IF sma_short[last].nan \/ sma_long[last].nan
             THEN [signal |-> "none", frame |-> after]
             ELSE IF MeanGreater(sma_short[last], sma_long[last])
             THEN [signal |-> "call", frame |-> after]
             ELSE [signal |-> "put", frame |-> after]

\* delta.where(delta > 0, 0) of close.diff(): the rise of each row over the
\* row before it, 0 where the close did not rise and 0 on the first row,
\* whose difference is NaN.
Gain(close) ==
    [i \in 1..Len(close) |->
        IF i > 1 /\ close[i] > close[i - 1]
        THEN close[i] - close[i - 1] ELSE 0]

\* -delta.where(delta < 0, 0): the fall of each row, as a positive number.
Loss(close) ==
    [i \in 1..Len(close) |->
        IF i > 1 /\ close[i] < close[i - 1]
        THEN close[i - 1] - close[i] ELSE 0]

NaNRsi == [nan |-> TRUE, num |-> 0, den |-> 1]

\* Mutant of RsiOf: a window without losses gives no value.
RsiOf_ZeroLossNaN(g, l) ==
    IF g.nan \/ l.nan \/ l.sum = 0 THEN NaNRsi
    ELSE [nan |-> FALSE, num |-> 100 * g.sum, den |-> g.sum + l.sum]

\* rs = avg_gain / avg_loss and rsi = 100 - (100 / (1 + rs)) for two rolling
\* means of one window, kept as the fraction num/den.  The division is a
\* float division of two Series: 0/0 is NaN, and a gain over no loss is
\* infinite, which makes 100 / (1 + rs) zero and rsi 100.  With losses
\* rsi = 100 * gain / (gain + loss).
RsiOf(g, l) ==
    IF g.nan \/ l.nan THEN NaNRsi
    ELSE IF l.sum = 0
    THEN (IF g.sum = 0 THEN NaNRsi ELSE [nan |-> FALSE, num |-> 100, den |-> 1])
    ELSE [nan |-> FALSE, num |-> 100 * g.sum, den |-> g.sum + l.sum]

\* RSIStrategy.calculate_rsi(data): one value per row.
calculate_rsi(close) ==
    LET avg_gain == Rolling(Gain(close), rsi_period)
        avg_loss == Rolling(Loss(close), rsi_period)
    IN  [i \in 1..Len(close) |-> RsiOf(avg_gain[i], avg_loss[i])]

\* Mutant of RsiAtMost: the bound exclusive.
RsiBelow(r, t) == r.num < t * r.den

\* r <= t and r >= t for an RSI that is not NaN.
RsiAtMost(r, t) == r.num <= t * r.den

RsiAtLeast(r, t) == r.num >= t * r.den

\* RSIStrategy.analyze(data): the signal returned and the frame as the call
\* leaves it.
RSIAnalyze(frame) ==
    IF Len(frame.close) < rsi_period + 1
    THEN [signal |-> "none", frame |-> frame]
    ELSE LET rsi == calculate_rsi(frame.close)
             after == [frame EXCEPT !.columns = @ \cup {"rsi"}]
             last_row == rsi[Len(frame.close)]
         IN  IF last_row.nan
             THEN [signal |-> "none", frame |-> after]
             ELSE IF RsiAtMost(last_row, oversold)
             THEN [signal |-> "call", frame |-> after]
             ELSE IF RsiAtLeast(last_row, overbought)
             THEN [signal |-> "put", frame |-> after]
             ELSE [signal |-> "none", frame |-> after]

\* RandomStrategy.analyze(data): either direction, the frame untouched.
RandomAnalyze(frame) ==
    { [signal |-> d, frame |-> frame] : d \in {"call", "put"} }

\* get_strategy(strategy_type, parameters).analyze(data): the outcomes.
Analyze(frame) ==
    IF strategy_type = "random" THEN RandomAnalyze(frame)
    ELSE IF strategy_type = "rsi" THEN {RSIAnalyze(frame)}
    ELSE {TrendFollowingAnalyze(frame)}

\* A frame of closes as get_market_data returns it.
Frame(close) ==
    [close |-> close,
     columns |-> {"timestamp", "open", "high", "low", "close", "volume"}]

NoFrame == [close |-> <<>>, columns |-> {}]

\* get_market_data(): num_candles candles.  The closes are random in the
\* source; here they move by `slope` ticks a candle.
MarketData(slope) ==
    Frame([i \in 1..NumCandles |-> 100 + slope * i])

\* --------------------------------------------------------------- trading
Losses(history) ==
    Cardinality({i \in 1..Len(history) : history[i].status = "loss"})

\* Mutant of place_trade: an attempt that fails at a browser step is counted.
place_trade_CountsFailure(d, a, ui_ok) ==
    IF daily_trades >= max_daily_trades \/ daily_loss >= max_daily_loss
    THEN [ret |-> FALSE, trade_history |-> trade_history,
          daily_trades |-> daily_trades]
    ELSE IF ~ui_ok
    THEN [ret |-> FALSE, trade_history |-> trade_history,
          daily_trades |-> daily_trades + 1]
    ELSE [ret |-> TRUE,
          trade_history |->
              Append(trade_history,
                     [direction |-> d, amount |-> a, status |-> "pending",
                      martingale_level |->
                          IF martingale_enabled
                          THEN Losses(trade_history) ELSE 0]),
          daily_trades |-> daily_trades + 1]

\* place_trade(direction, amount): the value returned and the session data
\* it leaves.  ui_ok: every browser step of lines 226-255 succeeded.
place_trade(d, a, ui_ok) ==
    IF daily_trades >= max_daily_trades \/ daily_loss >= max_daily_loss
       \/ ~ui_ok
    THEN [ret |-> FALSE, trade_history |-> trade_history,
          daily_trades |-> daily_trades]
    ELSE LET trade == [direction |-> d, amount |-> a, status |-> "pending",
                       martingale_level |->
                           IF martingale_enabled
                           THEN Losses(trade_history) ELSE 0]
         IN  [ret |-> TRUE, trade_history |-> Append(trade_history, trade),
              daily_trades |-> daily_trades + 1]

\* Mutant of check_trade_result: the amount of a won trade is added too.
check_trade_result_CountsWin(result) ==
    IF trade_history = <<>>
    THEN [trade_history |-> trade_history, daily_loss |-> daily_loss]
    ELSE [trade_history |->
              [trade_history EXCEPT ![Len(trade_history)].status = result],
          daily_loss |->
              daily_loss + trade_history[Len(trade_history)].amount]

\* Mutant of check_trade_result: the result is not written.
check_trade_result_Forgets(result) ==
    [trade_history |-> trade_history, daily_loss |-> daily_loss]

\* check_trade_result(): the simulated result written to the last trade.
check_trade_result(result) ==
    IF trade_history = <<>>
    THEN [trade_history |-> trade_history, daily_loss |-> daily_loss]
    ELSE LET n == Len(trade_history)
         IN  [trade_history |->
                  [trade_history EXCEPT ![n].status = result],
              daily_loss |->
                  IF result = "loss"
                  THEN daily_loss + trade_history[n].amount
                  ELSE daily_loss]

\* --------------------------------------------------------- configurations
\* The configurations a bot is constructed from: the default of
\* BotConfig.get_default_config and its variations in one group of keys at a
\* time.  Nothing in __init__ or get_strategy checks a value, so the values
\* the specification calls invalid are among them.
DefaultRisk ==
    [trade_amount |-> DefaultTradeAmount,
     martingale_coefficient |-> DefaultCoefficient,
     max_martingale_level |-> DefaultMaxLevel]

RiskConfigs ==
    { DefaultRisk,
      [DefaultRisk EXCEPT !.max_martingale_level = 2],
      [DefaultRisk EXCEPT !.martingale_coefficient = 15,
                          !.max_martingale_level = 3],
      [DefaultRisk EXCEPT !.martingale_coefficient = 10,
                          !.max_martingale_level = 3],
      [DefaultRisk EXCEPT !.max_martingale_level = 0],
      [DefaultRisk EXCEPT !.trade_amount = 0,
                          !.max_martingale_level = 3] }

DefaultLimits ==
    [max_daily_loss |-> DefaultMaxDailyLoss,
     max_daily_trades |-> DefaultMaxDailyTrades]

LimitConfigs ==
    { DefaultLimits,
      [DefaultLimits EXCEPT !.max_daily_trades = 2],
      [DefaultLimits EXCEPT !.max_daily_trades = 0],
      [DefaultLimits EXCEPT !.max_daily_loss = 300] }

DefaultStrategy ==
    [strategy_type |-> "trend_following",
     short_period |-> DefaultShortPeriod,
     long_period |-> DefaultLongPeriod,
     rsi_period |-> DefaultRsiPeriod,
     rsi_overbought |-> DefaultOverbought,
     rsi_oversold |-> DefaultOversold]

StrategyConfigs ==
    { DefaultStrategy,
      [DefaultStrategy EXCEPT !.short_period = DefaultLongPeriod,
                              !.long_period = DefaultShortPeriod],
      [DefaultStrategy EXCEPT !.long_period = NumCandles + 5],
      [DefaultStrategy EXCEPT !.strategy_type = "random"],
      [DefaultStrategy EXCEPT !.strategy_type = "rsi"] }

Configs ==
    { [risk |-> r, enabled |-> TRUE, limits |-> DefaultLimits,
       strategy |-> DefaultStrategy] : r \in RiskConfigs }
    \cup
    { [risk |-> DefaultRisk, enabled |-> e, limits |-> l,
       strategy |-> DefaultStrategy] : l \in LimitConfigs, e \in BOOLEAN }
    \cup
    { [risk |-> DefaultRisk, enabled |-> TRUE, limits |-> DefaultLimits,
       strategy |-> st] : st \in StrategyConfigs }

\* The keys of a configuration, its sections flattened: trading.trade_amount,
\* the keys of risk_management, strategy.type, the strategy's parameters.
Dict(c) ==
    [trade_amount |-> c.risk.trade_amount,
     martingale_enabled |-> c.enabled,
     martingale_coefficient |-> c.risk.martingale_coefficient,
     max_martingale_level |-> c.risk.max_martingale_level,
     max_daily_loss |-> c.limits.max_daily_loss,
     max_daily_trades |-> c.limits.max_daily_trades,
     type |-> c.strategy.strategy_type,
     short_period |-> c.strategy.short_period,
     long_period |-> c.strategy.long_period,
     rsi_period |-> c.strategy.rsi_period,
     rsi_overbought |-> c.strategy.rsi_overbought,
     rsi_oversold |-> c.strategy.rsi_oversold]

\* The keys __init__ reads with config[section][key]: a missing one raises
\* KeyError.
IndexedKeys ==
    {"trade_amount", "martingale_enabled", "martingale_coefficient",
     "max_martingale_level", "max_daily_loss", "max_daily_trades", "type"}

\* dict.get(key, default)
Get(dict, key, default) ==
    IF key \in DOMAIN dict THEN dict[key] ELSE default

\* PocketOptionBot.__init__(config) and get_strategy: the bot's keys are
\* indexed, the strategy's parameters are read with get and a default.
\* Values are copied, none is checked.  After a KeyError there is no bot.
ConstructFrom(cfg) ==
    /\ config = cfg
    /\ martingale_stack = <<>>
    /\ trade_history = <<>>
    /\ daily_loss = 0
    /\ daily_trades = 0
    /\ IF IndexedKeys \subseteq DOMAIN cfg
       THEN /\ error = "none"
            /\ trade_amount = cfg["trade_amount"]
            /\ martingale_enabled = cfg["martingale_enabled"]
            /\ martingale_coefficient = cfg["martingale_coefficient"]
            /\ max_martingale_level = cfg["max_martingale_level"]
            /\ max_daily_loss = cfg["max_daily_loss"]
            /\ max_daily_trades = cfg["max_daily_trades"]
            /\ strategy_type = cfg["type"]
            /\ short_period = Get(cfg, "short_period", DefaultShortPeriod)
            /\ long_period = Get(cfg, "long_period", DefaultLongPeriod)
            /\ rsi_period = Get(cfg, "rsi_period", DefaultRsiPeriod)
            /\ overbought = Get(cfg, "rsi_overbought", DefaultOverbought)
            /\ oversold = Get(cfg, "rsi_oversold", DefaultOversold)
       ELSE /\ error = "KeyError"
            /\ trade_amount = 0
            /\ martingale_enabled = FALSE
            /\ martingale_coefficient = 0
            /\ max_martingale_level = 0
            /\ max_daily_loss = 0
            /\ max_daily_trades = 0
            /\ strategy_type = "none"
            /\ short_period = 0
            /\ long_period = 0
            /\ rsi_period = 0
            /\ overbought = 0
            /\ oversold = 0

Construct(c) == ConstructFrom(Dict(c))

Init ==
    /\ \E c \in Configs : Construct(c)
    /\ pc = "idle"
    /\ direction = "none"
    /\ amount = 0
    /\ raised = FALSE
    /\ data = NoFrame
    /\ signal = "none"
    /\ called = 0

\* ------------------------------------------------------ run_trading_session
\* lines 337-355: the counters are reset, then login and select_asset; a
\* failure of either returns.
StartSession ==
    /\ error = "none"
    /\ pc = "idle"
    /\ daily_trades' = 0
    /\ daily_loss' = 0
    /\ \E logged_in \in BOOLEAN, selected \in BOOLEAN :
           pc' = IF logged_in /\ selected THEN "loop" ELSE "idle"
    /\ UNCHANGED <<botConfig, martingale_stack, trade_history, direction,
                   amount, raised, standalone>>

\* line 358: the session's time is up.
LoopExit ==
    /\ pc = "loop"
    /\ pc' = "idle"
    /\ UNCHANGED <<botConfig, martingale_stack, trade_history, daily_loss,
                   daily_trades, direction, amount, raised, standalone>>

\* Mutant of LimitReached: the loop checks the loss ceiling alone.
LimitReached_LossOnly == daily_loss >= max_daily_loss

\* lines 361 and 365: the conditions of the two breaks.
LimitReached ==
    daily_trades >= max_daily_trades \/ daily_loss >= max_daily_loss

\* lines 361-367: a daily limit is reached, the loop breaks.
LoopLimit ==
    /\ pc = "loop"
    /\ LimitReached
    /\ pc' = "idle"
    /\ UNCHANGED <<botConfig, martingale_stack, trade_history, daily_loss,
                   daily_trades, direction, amount, raised, standalone>>

\* lines 369-388: market data, the signal and the amount of the next trade.
\* No signal: continue.  An exception of the amount's computation is caught
\* at line 414: continue.
LoopDecide ==
    /\ pc = "loop"
    /\ ~LimitReached
    /\ \E slope \in {-1, 0, 1} :
       \E a \in Analyze(MarketData(slope)) :
          IF a.signal = "none"
          THEN /\ pc' = "loop"
               /\ UNCHANGED <<direction, amount, raised, martingale_stack>>
          ELSE \E r \in NextAmount :
                 /\ martingale_stack' = r.stack
                 /\ raised' = r.raised
                 /\ pc' = IF r.raised THEN "loop" ELSE "place"
                 /\ direction' = IF r.raised THEN "none" ELSE a.signal
                 /\ amount' = r.amount
    /\ UNCHANGED <<botConfig, trade_history, daily_loss, daily_trades,
                   standalone>>

\* lines 390-394: place_trade(direction, amount); a refusal or a failed
\* browser step skips the cycle.
PlaceTrade ==
    /\ pc = "place"
    /\ \E ui_ok \in BOOLEAN :
         /\ ui_ok => Len(trade_history) < MaxTrades
         /\ LET p == place_trade(direction, amount, ui_ok)
            IN  /\ trade_history' = p.trade_history
                /\ daily_trades' = p.daily_trades
                /\ pc' = IF p.ret THEN "check" ELSE "loop"
                /\ direction' = IF p.ret THEN direction ELSE "none"
                /\ amount' = IF p.ret THEN amount ELSE 0
    /\ UNCHANGED <<botConfig, martingale_stack, daily_loss, raised,
                   standalone>>

\* line 397: check_trade_result() settles the trade just placed; the loop
\* locals are dead from here to the next cycle.
CheckTradeResult ==
    /\ pc = "check"
    /\ \E result \in {"win", "loss"} :
         LET c == check_trade_result(result)
         IN  /\ trade_history' = c.trade_history
             /\ daily_loss' = c.daily_loss
    /\ pc' = "loop"
    /\ direction' = "none"
    /\ amount' = 0
    /\ UNCHANGED <<botConfig, martingale_stack, daily_trades, raised,
                   standalone>>

Next ==
    \/ StartSession
    \/ LoopExit
    \/ LoopLimit
    \/ LoopDecide
    \/ PlaceTrade
    \/ CheckTradeResult

Spec == Init /\ [][Next]_vars

\* ------------------------------------------------- the session interrupted
\* A KeyboardInterrupt during one of the waits (time.sleep, WebDriverWait) is
\* no Exception: no handler of the bot catches it and run_trading_session is
\* left where it stands; main() logs it.  The bot object keeps its state, a
\* trade placed and not yet checked stays pending.
Interrupt ==
    /\ pc \in {"loop", "place", "check"}
    /\ pc' = "idle"
    /\ direction' = "none"
    /\ amount' = 0
    /\ UNCHANGED <<botConfig, martingale_stack, trade_history, daily_loss,
                   daily_trades, raised, standalone>>

\* Bots with the martingale enabled and max_martingale_level 5, 2, 3 and 0
\* (the last one indexes the stack with -1).
InterruptRisk ==
    { r \in RiskConfigs :
        r.trade_amount > 0 /\ r.martingale_coefficient > 10 }

InitInterrupt ==
    /\ \E r \in InterruptRisk :
         Construct([risk |-> r, enabled |-> TRUE, limits |-> DefaultLimits,
                    strategy |-> DefaultStrategy])
    /\ pc = "idle"
    /\ direction = "none"
    /\ amount = 0
    /\ raised = FALSE
    /\ data = NoFrame
    /\ signal = "none"
    /\ called = 0

NextInterrupt == Next \/ Interrupt

SpecInterrupt == InitInterrupt /\ [][NextInterrupt]_vars

\* -------------------------------------------- the risk parameters reassigned
\* trade_amount, martingale_coefficient and max_martingale_level are plain
\* attributes set in __init__; between two sessions their owner gives them
\* new values.  Nothing else is touched: martingale_stack stays as it is.
HostRisk ==
    { DefaultRisk,
      [DefaultRisk EXCEPT !.trade_amount = 2 * DefaultTradeAmount],
      [DefaultRisk EXCEPT !.max_martingale_level = 2] }

Reconfigure ==
    /\ pc = "idle"
    /\ \E r \in HostRisk :
         /\ trade_amount' = r.trade_amount
         /\ martingale_coefficient' = r.martingale_coefficient
         /\ max_martingale_level' = r.max_martingale_level
    /\ UNCHANGED <<config, error, martingale_enabled, martingale_stack,
                   max_daily_loss, max_daily_trades, strategy_type, short_period,
                   long_period, rsi_period, overbought, oversold,
                   trade_history, daily_loss, daily_trades,
                   pc, direction, amount, raised, standalone>>

InitHost ==
    /\ Construct([risk |-> DefaultRisk, enabled |-> TRUE,
                  limits |-> DefaultLimits, strategy |-> DefaultStrategy])
    /\ pc = "idle"
    /\ direction = "none"
    /\ amount = 0
    /\ raised = FALSE
    /\ data = NoFrame
    /\ signal = "none"
    /\ called = 0

NextHost == Next \/ Reconfigure

SpecHost == InitHost /\ [][NextHost]_vars

\* ------------------------------------------------ a strategy called alone
Seqs(S, n) == UNION { [1..k -> S] : k \in 0..n }

\* <<rsi_oversold, rsi_overbought>>: the default, thresholds that a small
\* window can meet exactly, the two ends of the scale, and two pairs out of
\* range.  At these thresholds the float rsi of whole-tick closes compares
\* as its fraction does.
Thresholds ==
    { <<DefaultOversold, DefaultOverbought>>, <<50, 75>>, <<0, 100>>,
      <<100, 100>>, <<DefaultOversold, 110>> }

\* The strategies called alone: trend-following with any two periods, RSI
\* with any period and any of the thresholds.
AnalyzeStrategies ==
    { [DefaultStrategy EXCEPT !.short_period = sp, !.long_period = lp] :
          sp \in 1..MaxPeriod, lp \in 1..MaxPeriod }
    \cup
    { [DefaultStrategy EXCEPT !.strategy_type = "rsi", !.rsi_period = rp,
                              !.rsi_oversold = t[1],
                              !.rsi_overbought = t[2]] :
          rp \in 1..MaxPeriod, t \in Thresholds }

\* A strategy and a frame of any closes; the bot around it is the default
\* one.
InitAnalyze ==
    /\ \E st \in AnalyzeStrategies :
         Construct([risk |-> DefaultRisk, enabled |-> FALSE,
                    limits |-> DefaultLimits, strategy |-> st])
    /\ pc = "idle"
    /\ direction = "none"
    /\ amount = 0
    /\ raised = FALSE
    /\ \E close \in Seqs(0..MaxClose, MaxBars) : data = Frame(close)
    /\ signal = "none"
    /\ called = 0

\* strategy.analyze(data) on the caller's frame.
CallAnalyze ==
    /\ error = "none"
    /\ called < MaxCalls
    /\ \E a \in Analyze(data) :
         /\ data' = a.frame
         /\ signal' = a.signal
    /\ called' = called + 1
    /\ UNCHANGED <<botConfig, martingale_stack, trade_history, daily_loss,
                   daily_trades, pc, direction, amount, raised>>

NextAnalyze == CallAnalyze

SpecAnalyze == InitAnalyze /\ [][NextAnalyze]_vars

\* ------------------------------------------- a configuration with keys missing
\* The keys that have a default.
DefaultedKeys ==
    {"short_period", "long_period", "rsi_period", "rsi_overbought",
     "rsi_oversold", "martingale_coefficient", "max_martingale_level"}

\* A configuration file written by hand: every key set, none to its default.
CustomConfig(type) ==
    [trade_amount |-> DefaultTradeAmount, martingale_enabled |-> TRUE,
     martingale_coefficient |-> 15, max_martingale_level |-> 3,
     max_daily_loss |-> DefaultMaxDailyLoss,
     max_daily_trades |-> DefaultMaxDailyTrades, type |-> type,
     short_period |-> 3, long_period |-> 7, rsi_period |-> 5,
     rsi_overbought |-> 75, rsi_oversold |-> 50, comment |-> 0]

\* BotConfig.load_config returns the file's dictionary as it is: a bot is
\* constructed from the custom configuration with any of the defaulted keys
\* left out, and with or without a key nobody reads.
InitMissing ==
    /\ \E type \in {"trend_following", "rsi"} :
       \E missing \in SUBSET (DefaultedKeys \cup {"comment"}) :
         ConstructFrom([k \in DOMAIN CustomConfig(type) \ missing |->
                           CustomConfig(type)[k]])
    /\ pc = "idle"
    /\ direction = "none"
    /\ amount = 0
    /\ raised = FALSE
    /\ \E slope \in {-1, 0, 1} : data = MarketData(slope)
    /\ signal = "none"
    /\ called = 0

SpecMissing == InitMissing /\ [][NextAnalyze]_vars

\* ================================================================ claims
Last(history) == history[Len(history)]

\* The losses since the most recent win (or since the first trade).
RECURSIVE LossesSinceWin(_)
LossesSinceWin(history) ==
    IF history = <<>> \/ Last(history).status = "win" THEN 0
    ELSE (IF Last(history).status = "loss" THEN 1 ELSE 0)
         + LossesSinceWin(SubSeq(history, 1, Len(history) - 1))

AllLosses(history, n) == \A j \in 1..n : history[j].status = "loss"

\* The amount of the next trade has been computed with the ladder.
StakeFromLadder ==
    pc = "place" /\ martingale_enabled /\ trade_history # <<>>

ExampleLadder == <<100, 210, 441, 926, 1945>>

IsDefaultRisk ==
    /\ trade_amount = DefaultTradeAmount
    /\ martingale_coefficient = DefaultCoefficient
    /\ max_martingale_level = DefaultMaxLevel

\* C1: with the martingale enabled, the stake chosen after a loss is
\* ladder[min(c, max_level-1)], c the number of losses since the most recent
\* win (or since the first trade).
C1_StakeAfterLoss ==
    (StakeFromLadder /\ Last(trade_history).status = "loss"
       /\ max_martingale_level >= 1)
    => amount = martingale_stack[
                   Min(LossesSinceWin(trade_history),
                       max_martingale_level - 1) + 1]

\* C2: with the martingale enabled, whenever the most recent settled trade is
\* a win the next stake is ladder[0] = trade_amount, whatever the history
\* before it and whatever the level the winning trade was placed at.
C2_WinResets ==
    /\ (StakeFromLadder /\ Last(trade_history).status = "win")
       => (amount = trade_amount /\ martingale_stack[1] = trade_amount)
    /\ martingale_enabled =>
         \A i \in 2..Len(trade_history) :
            trade_history[i - 1].status = "win"
            => trade_history[i].amount = trade_amount

C2_Witness ==
    /\ StakeFromLadder
    /\ Last(trade_history).status = "win"
    /\ Last(trade_history).martingale_level >= 2
    /\ Last(trade_history).amount > trade_amount
    /\ amount = trade_amount

\* C3: with the martingale disabled every trade of a session is placed with
\* trade_amount, whatever the outcomes before it, and the ladder is never
\* built.
C3_DisabledIsBase ==
    ~martingale_enabled =>
        /\ \A i \in 1..Len(trade_history) :
              trade_history[i].amount = trade_amount
        /\ pc \in {"place", "check"} => amount = trade_amount
        /\ martingale_stack = <<>>

C3_Witness ==
    /\ ~martingale_enabled
    /\ Len(trade_history) >= 3
    /\ pc = "place"
    /\ amount = trade_amount
    /\ \E i \in 1..Len(trade_history) : trade_history[i].status = "loss"
    /\ \E i \in 1..Len(trade_history) : trade_history[i].status = "win"

\* The stake the claim C4 gives the n-th trade of an unbroken run of losses.
RunStake(n) ==
    IF n = 1 THEN trade_amount
    ELSE martingale_stack[Min(n - 1, max_martingale_level - 1) + 1]

\* C4: from an empty history with the martingale enabled, in an initial
\* unbroken run of losses the n-th trade's stake is
\* ladder[min(n-1, max_level-1)], capped at the last rung, and the first
\* trade after a win is placed with trade_amount again; with the default
\* risk parameters the stakes are 1, 2.1, 4.41, 9.26, 19.45, 19.45, ...
C4_LossRun ==
    (martingale_enabled /\ max_martingale_level >= 1) =>
        /\ \A n \in 1..Len(trade_history) :
              AllLosses(trade_history, n - 1) =>
                 /\ trade_history[n].amount = RunStake(n)
                 /\ IsDefaultRisk =>
                       trade_history[n].amount =
                          ExampleLadder[Min(n, DefaultMaxLevel)]
        /\ (pc = "place" /\ AllLosses(trade_history, Len(trade_history)))
              => amount = RunStake(Len(trade_history) + 1)
        /\ \A n \in 2..Len(trade_history) :
              (AllLosses(trade_history, n - 2)
                 /\ trade_history[n - 1].status = "win")
              => trade_history[n].amount = trade_amount

C4_Witness ==
    /\ martingale_enabled
    /\ IsDefaultRisk
    /\ Len(trade_history) = 5
    /\ AllLosses(trade_history, 3)
    /\ trade_history[4].status = "win"
    /\ trade_history[4].amount = 926
    /\ trade_history[5].amount = 100

C4_WitnessCap ==
    /\ martingale_enabled
    /\ max_martingale_level = 2
    /\ Len(trade_history) >= 4
    /\ AllLosses(trade_history, 3)
    /\ trade_history[3].amount = trade_history[4].amount
    /\ trade_history[4].amount = martingale_stack[2]

\* C5: the ladder has max_level entries, ladder[0] = trade_amount and each
\* further entry is the entry before it times the coefficient, rounded to
\* the cent at that step; for 1, 2.1, 5 it is [1, 2.1, 4.41, 9.26, 19.45].
C5_Ladder ==
    (martingale_stack # <<>> /\ max_martingale_level >= 1) =>
        /\ Len(martingale_stack) = max_martingale_level
        /\ martingale_stack[1] = trade_amount
        /\ \A i \in 2..Len(martingale_stack) :
              LET exact == martingale_stack[i - 1] * martingale_coefficient
                  got == 10 * martingale_stack[i]
              IN  got - exact <= 5 /\ exact - got <= 5
        /\ IsDefaultRisk => martingale_stack = ExampleLadder

C5_Witness ==
    /\ IsDefaultRisk
    /\ martingale_stack = ExampleLadder

\* The static parameters the specification accepts.
ValidStatic ==
    /\ trade_amount > 0
    /\ martingale_coefficient > 10
    /\ max_martingale_level >= 1
    /\ long_period > short_period

\* C6: a bot or strategy with invalid static parameters is rejected when it
\* is constructed: no signal and no stake is ever computed for it.
C6_InvalidRejected ==
    ~ValidStatic =>
        /\ direction = "none"
        /\ amount = 0
        /\ trade_history = <<>>

\* C7: at every stake computation with the martingale enabled the ladder in
\* use is the one derived from the current trade_amount, coefficient and
\* max_level.
C7_LadderCurrent ==
    StakeFromLadder =>
        martingale_stack \in BuildStack(<<trade_amount>>,
                                        martingale_coefficient,
                                        max_martingale_level)

\* C8: the stake computation never raises: on an empty history it gives
\* trade_amount, on any other history, a pending last trade included, an
\* entry of the ladder.
C8_NeverFails ==
    /\ ~raised
    /\ (pc = "place" /\ trade_history = <<>>) => amount = trade_amount
    /\ StakeFromLadder =>
          \E i \in 1..Len(martingale_stack) : amount = martingale_stack[i]

C8_Witness ==
    /\ StakeFromLadder
    /\ Last(trade_history).status = "pending"
    /\ Len(trade_history) >= 3
    /\ ~raised
    /\ amount > trade_amount

RECURSIVE TailSum(_, _)
TailSum(close, w) ==
    IF w = 0 THEN 0
    ELSE close[Len(close)]
         + TailSum(SubSeq(close, 1, Len(close) - 1), w - 1)

\* The mean of the last short_period closes is greater than the mean of the
\* last long_period closes.
ShortAboveLong(close) ==
    TailSum(close, short_period) * long_period
       > TailSum(close, long_period) * short_period

SameMeans(close) ==
    TailSum(close, short_period) * long_period
       = TailSum(close, long_period) * short_period

\* C9: TrendFollowing.analyze returns None for a series shorter than
\* long_period and whenever a trailing mean is undefined; otherwise call
\* exactly when the mean of the last short_period closes is strictly greater
\* than the mean of the last long_period closes, and put in every other
\* case, the tie included.
C9_TrendSignal ==
    (called > 0 /\ strategy_type = "trend_following") =>
        LET close == data.close
        IN  IF Len(close) < long_period \/ Len(close) < short_period
            THEN signal = "none"
            ELSE IF ShortAboveLong(close) THEN signal = "call"
            ELSE signal = "put"

C9_Witness ==
    /\ called > 0
    /\ strategy_type = "trend_following"
    /\ short_period < long_period
    /\ Len(data.close) >= long_period
    /\ SameMeans(data.close)
    /\ \E i \in 1..Len(data.close) : data.close[i] # data.close[1]
    /\ signal = "put"

StrictlyIncreasing(close) ==
    \A i \in 1..(Len(close) - 1) : close[i] < close[i + 1]

StrictlyDecreasing(close) ==
    \A i \in 1..(Len(close) - 1) : close[i] > close[i + 1]

\* C10: for a series of at least long_period closes, short_period <
\* long_period, analyze returns call if the closes are strictly increasing
\* and put if they are strictly decreasing.
C10_Monotone ==
    (called > 0 /\ strategy_type = "trend_following"
       /\ short_period < long_period /\ Len(data.close) >= long_period)
    => /\ StrictlyIncreasing(data.close) => signal = "call"
       /\ StrictlyDecreasing(data.close) => signal = "put"

C10_Witness ==
    /\ called > 0
    /\ strategy_type = "trend_following"
    /\ short_period < long_period
    /\ Len(data.close) > long_period
    /\ long_period >= 3
    /\ StrictlyIncreasing(data.close)
    /\ signal = "call"

C10_WitnessDown ==
    /\ called > 0
    /\ strategy_type = "trend_following"
    /\ short_period < long_period
    /\ Len(data.close) > long_period
    /\ StrictlyDecreasing(data.close)
    /\ signal = "put"

\* The rises (falls) of the last k differences of a series, added up.
RECURSIVE Rises(_, _)
Rises(close, k) ==
    IF k = 0 THEN 0
    ELSE LET n == Len(close)
             d == close[n] - close[n - 1]
         IN  (IF d > 0 THEN d ELSE 0) + Rises(SubSeq(close, 1, n - 1), k - 1)

RECURSIVE Falls(_, _)
Falls(close, k) ==
    IF k = 0 THEN 0
    ELSE LET n == Len(close)
             d == close[n] - close[n - 1]
         IN  (IF d < 0 THEN -d ELSE 0) + Falls(SubSeq(close, 1, n - 1), k - 1)

RsiCalled == called > 0 /\ strategy_type = "rsi"

LongEnough == Len(data.close) >= rsi_period + 1

\* C11: RSI.analyze returns None for a series of fewer than rsi_period + 1
\* bars; otherwise, for a window with a loss and RSI = 100 - 100/(1 +
\* avg_gain/avg_loss) = 100 * gain / (gain + loss) over the last rsi_period
\* differences, call when RSI <= oversold, put when RSI >= overbought, None
\* in between, both bounds inclusive (oversold < overbought).
C11_RsiSignal ==
    (RsiCalled /\ oversold < overbought) =>
        IF ~LongEnough THEN signal = "none"
        ELSE LET g == Rises(data.close, rsi_period)
                 l == Falls(data.close, rsi_period)
             IN  l > 0 =>
                   signal = IF 100 * g <= oversold * (g + l) THEN "call"
                            ELSE IF 100 * g >= overbought * (g + l)
                            THEN "put" ELSE "none"

\* An RSI of exactly oversold, neither 0 nor 100, gives call.
C11_Witness ==
    /\ RsiCalled /\ oversold < overbought /\ LongEnough
    /\ Falls(data.close, rsi_period) > 0
    /\ Rises(data.close, rsi_period) > 0
    /\ 100 * Rises(data.close, rsi_period)
         = oversold * (Rises(data.close, rsi_period)
                         + Falls(data.close, rsi_period))
    /\ signal = "call"

\* An RSI of exactly overbought gives put.
C11_WitnessPut ==
    /\ RsiCalled /\ oversold < overbought /\ LongEnough
    /\ Falls(data.close, rsi_period) > 0
    /\ 100 * Rises(data.close, rsi_period)
         = overbought * (Rises(data.close, rsi_period)
                           + Falls(data.close, rsi_period))
    /\ signal = "put"

\* An RSI strictly between the thresholds gives no signal.
C11_WitnessBetween ==
    /\ RsiCalled /\ oversold < overbought /\ LongEnough
    /\ Falls(data.close, rsi_period) > 0
    /\ 100 * Rises(data.close, rsi_period)
         > oversold * (Rises(data.close, rsi_period)
                         + Falls(data.close, rsi_period))
    /\ 100 * Rises(data.close, rsi_period)
         < overbought * (Rises(data.close, rsi_period)
                           + Falls(data.close, rsi_period))
    /\ signal = "none"

Flat(close) == \A i \in 1..Len(close) : close[i] = close[1]

DefaultThresholds ==
    oversold = DefaultOversold /\ overbought = DefaultOverbought

\* C12: for a flat series (every difference 0) of at least rsi_period + 1
\* bars the RSI is taken as 100 by the zero-loss rule and analyze returns put
\* under the default thresholds, not None.
C12_FlatIsDown ==
    (RsiCalled /\ LongEnough /\ Flat(data.close) /\ DefaultThresholds)
    => signal = "put"

\* The window of the last rsi_period differences has a gain and no loss.
GainsOnly ==
    /\ Rises(data.close, rsi_period) > 0
    /\ Falls(data.close, rsi_period) = 0

\* C13: for a window with at least one gain and no loss (avg_loss = 0,
\* avg_gain > 0) the RSI is 100: analyze returns put whenever overbought <=
\* 100 and oversold < 100, never None there, and otherwise what an RSI of 100
\* gives against the thresholds.
C13_GainsOnlyIsDown ==
    (RsiCalled /\ LongEnough /\ GainsOnly)
    => /\ (overbought <= 100 /\ oversold < 100) => signal = "put"
       /\ signal = IF 100 <= oversold THEN "call"
                   ELSE IF 100 >= overbought THEN "put" ELSE "none"

C13_Witness ==
    /\ RsiCalled /\ LongEnough /\ GainsOnly
    /\ rsi_period >= 2
    /\ DefaultThresholds
    /\ signal = "put"

\* With overbought above 100 an RSI of 100 gives no signal.
C13_WitnessOutOfRange ==
    /\ RsiCalled /\ LongEnough /\ GainsOnly
    /\ overbought > 100
    /\ signal = "none"

\* A call of analyze: it leaves the caller's frame as it was, and a call after
\* the first returns the signal the one before it returned.
AnalyzeIsPure ==
    called' # called
    => /\ data' = data
       /\ called > 0 => signal' = signal

\* C14: analyze has no side effect on its input: after any call of
\* TrendFollowing.analyze or RSI.analyze the caller's series has exactly the
\* bars and fields it had before (none added, removed or modified), and
\* repeating the call returns the same signal.
C14_NoSideEffect == [][AnalyzeIsPure]_vars

\* The attribute a key of the configuration is read into.
Attribute(key) ==
    CASE key = "short_period" -> short_period
      [] key = "long_period" -> long_period
      [] key = "rsi_period" -> rsi_period
      [] key = "rsi_overbought" -> overbought
      [] key = "rsi_oversold" -> oversold
      [] key = "martingale_coefficient" -> martingale_coefficient
      [] key = "max_martingale_level" -> max_martingale_level

DefaultOf(key) ==
    CASE key = "short_period" -> DefaultShortPeriod
      [] key = "long_period" -> DefaultLongPeriod
      [] key = "rsi_period" -> DefaultRsiPeriod
      [] key = "rsi_overbought" -> DefaultOverbought
      [] key = "rsi_oversold" -> DefaultOversold
      [] key = "martingale_coefficient" -> DefaultCoefficient
      [] key = "max_martingale_level" -> DefaultMaxLevel

\* C15: for a configuration with any subset of the recognized keys missing,
\* constructing the strategies and the bot succeeds, every missing key takes
\* its default (short_period 5, long_period 10, rsi_period 14, rsi_overbought
\* 70, rsi_oversold 30, martingale_coefficient 2.1, max_martingale_level 5)
\* and every key present its configured value.
C15_MissingKeysDefault ==
    /\ error = "none"
    /\ \A key \in DefaultedKeys :
         Attribute(key) = Get(config, key, DefaultOf(key))

CeilingReached ==
    daily_trades >= max_daily_trades \/ daily_loss >= max_daily_loss

\* A step of the session: a trade is recorded only below both ceilings, and
\* at the top of the loop with a ceiling reached the session ends, the
\* history as it was.
CeilingStep ==
    /\ Len(trade_history') > Len(trade_history) => ~CeilingReached
    /\ (pc = "loop" /\ CeilingReached)
       => (pc' = "idle" /\ trade_history' = trade_history)

\* C16: the session driver enforces the daily ceilings: daily_trades <=
\* max_daily_trades in every reachable state, no trade is placed in a state
\* where daily_trades >= max_daily_trades or daily_loss >= max_daily_loss,
\* and once either ceiling is reached the loop stops without placing another
\* trade.
C16_DailyCeilings ==
    [](daily_trades <= max_daily_trades) /\ [][CeilingStep]_vars

\* The trade ceiling is reached in the loop after trades were placed.
C16_Witness ==
    /\ pc = "loop"
    /\ max_daily_trades > 0
    /\ daily_trades = max_daily_trades

\* The loss ceiling is reached in the loop, the trade ceiling is not.
C16_WitnessLoss ==
    /\ pc = "loop"
    /\ daily_loss >= max_daily_loss
    /\ daily_trades < max_daily_trades

Settled(trade) == trade.status \in {"win", "loss"}

\* The loop is about to compute the amount of the next trade, or has just
\* computed it.
StakePoint == pc \in {"loop", "place"}

\* Every entry stays where it is; it changes at most in its status, from
\* pending to an outcome.
AppendOnly ==
    /\ Len(trade_history') >= Len(trade_history)
    /\ \A i \in 1..Len(trade_history) :
         \/ trade_history'[i] = trade_history[i]
         \/ /\ trade_history[i].status = "pending"
            /\ Settled(trade_history'[i])
            /\ trade_history'[i]
                 = [trade_history[i] EXCEPT
                      !.status = trade_history'[i].status]

\* C17: in the session loop every trade is settled before the next stake is
\* requested: whenever the stake of the next trade is computed the last entry
\* of the history is a win or a loss, never pending; and the history is
\* append-only: no entry is removed or reordered and a status changes only
\* once, from pending to its outcome.
C17_SettledBeforeNext ==
    /\ [](StakePoint /\ trade_history # <<>> => Settled(Last(trade_history)))
    /\ [][AppendOnly]_vars

\* The stake of a third trade has been computed from two settled ones.
C17_Witness ==
    /\ pc = "place"
    /\ martingale_enabled
    /\ Len(trade_history) = 2
    /\ \A i \in 1..2 : Settled(trade_history[i])
    /\ amount # trade_amount

\* history is `before` with one pending trade of direction d and amount a
\* appended.
OneAppended(before, history, d, a) ==
    /\ Len(history) = Len(before) + 1
    /\ SubSeq(history, 1, Len(before)) = before
    /\ Last(history).status = "pending"
    /\ Last(history).direction = d
    /\ Last(history).amount = a

\* What a call place_trade(d, a) returns and leaves, in the current state.
AllOrNothing(p, d, a) ==
    IF p.ret
    THEN /\ OneAppended(trade_history, p.trade_history, d, a)
         /\ p.daily_trades = daily_trades + 1
    ELSE /\ p.trade_history = trade_history
         /\ p.daily_trades = daily_trades

\* The call of place_trade in the loop: on to check_trade_result with the
\* trade recorded, or back to the top of the loop with nothing changed.
PlaceStep ==
    pc = "place" /\ pc' # "place"
    => \/ /\ pc' = "check"
          /\ OneAppended(trade_history, trade_history', direction, amount)
          /\ daily_trades' = daily_trades + 1
          /\ daily_loss' = daily_loss
       \/ /\ pc' = "loop"
          /\ trade_history' = trade_history
          /\ daily_trades' = daily_trades
          /\ daily_loss' = daily_loss

\* C18: place_trade is all-or-nothing on the session state: when it returns
\* False (a daily limit reached or a browser step failed) trade_history,
\* daily_trades and daily_loss are unchanged; when it returns True exactly one
\* entry, pending, with the requested direction and amount, is appended and
\* daily_trades grows by exactly 1.
C18_PlaceAllOrNothing ==
    /\ [](\A d \in {"call", "put"}, ui_ok \in BOOLEAN :
            AllOrNothing(place_trade(d, trade_amount, ui_ok), d,
                         trade_amount))
    /\ [][PlaceStep]_vars

\* A second trade of the session has just been recorded.
C18_Witness ==
    /\ pc = "check"
    /\ daily_trades = 2
    /\ Last(trade_history).status = "pending"
    /\ Last(trade_history).direction = direction
    /\ Last(trade_history).amount = amount

\* A ceiling is reached: a call of place_trade here returns False.
C18_WitnessRefused ==
    /\ pc = "loop"
    /\ trade_history # <<>>
    /\ ~place_trade("call", trade_amount, TRUE).ret

\* The amounts of the lost trades among the last k of a history, added up.
RECURSIVE LostAmount(_, _)
LostAmount(history, k) ==
    IF k = 0 THEN 0
    ELSE (IF Last(history).status = "loss" THEN Last(history).amount ELSE 0)
         + LostAmount(SubSeq(history, 1, Len(history) - 1), k - 1)

\* In a session the last daily_trades entries are its trades, and daily_loss
\* is what they lost.
SessionAccount ==
    /\ daily_trades <= Len(trade_history)
    /\ daily_loss = LostAmount(trade_history, daily_trades)

\* The amount a step settles as lost.
NewlyLost ==
    IF /\ trade_history # <<>>
       /\ Len(trade_history') = Len(trade_history)
       /\ Last(trade_history).status = "pending"
       /\ Last(trade_history').status = "loss"
    THEN Last(trade_history).amount ELSE 0

\* A step out of idle starts a session with both counters at 0; a step of a
\* session counts the trades it records and the amount it settles as lost.
CountStep ==
    IF pc = "idle"
    THEN daily_trades' = 0 /\ daily_loss' = 0
    ELSE /\ daily_trades'
              = daily_trades + Len(trade_history') - Len(trade_history)
         /\ daily_loss' = daily_loss + NewlyLost

\* C19: at every point of run_trading_session daily_trades is the number of
\* trades placed since the session started and daily_loss the sum of the
\* amounts of the trades settled as loss since then; a win leaves daily_loss
\* unchanged, and both counters start at 0 for each session, also when
\* trade_history holds trades of an earlier session.
C19_SessionAccounting ==
    /\ [](pc # "idle" => SessionAccount)
    /\ [][CountStep]_vars

\* A later session: of three trades in the history one is its own, and an
\* earlier session's loss is not in daily_loss.
C19_Witness ==
    /\ pc = "loop"
    /\ Len(trade_history) = 3
    /\ daily_trades = 1
    /\ trade_history[1].status = "loss"
    /\ trade_history[3].status = "loss"
    /\ daily_loss = trade_history[3].amount

====
